---- MODULE Spec2Model ----
(***************************************************************************)
(* Log-forwarding normalization of the cluster-logging-operator.           *)
(*                                                                         *)
(*  - internal/migrations/migrate_clusterlogforwarder.go:                  *)
(*      MigrateClusterLogForwarderSpec / MigrateDefaultOutput /            *)
(*      processPipelinesForLokiStack (default-output migration and tenant  *)
(*      fan-out);                                                          *)
(*  - package k8shandler (normalizeLogForwarding,                          *)
(*      gatherAndVerifyOutputRefs, verifyOutputSecret): the output and     *)
(*      pipeline validators.                                               *)
(*                                                                         *)
(* Go strings are TLA+ strings; a Go pointer or optional block is the      *)
(* empty sequence (nil) or a one-element sequence; a slice is a sequence.  *)
(***************************************************************************)
EXTENDS Integers, Sequences, FiniteSets, TLC

VARIABLES
    mode,        \* which entry point this run drives: "migrate" or "normalize"
    pc,          \* position of the caller: "start", "once", "twice"
    spec,        \* ClusterLogForwarderSpec handed to MigrateClusterLogForwarderSpec
    logStore,    \* *LogStoreSpec handed to it (Nil or Some)
    lokiCall,    \* arguments and results of the processPipelinesForLokiStack call of the first pass
    result,      \* spec returned by the first pass (its only result; Nil until it returns)
    result2,     \* spec returned when the first result is migrated again
    request,     \* ClusterLoggingRequest read by normalizeLogForwarding
    normalized,  \* ForwardingSpec returned by the first normalizeLogForwarding (its only
                 \* result; Nil until it returns)
    status,      \* ForwardingRequest.Status after the first pass
    path,        \* the return statement the first pass left by: "default", "disabled", "validated"
    normalized2  \* ForwardingSpec returned when the first result is normalized again

vars == <<mode, pc, spec, logStore, lokiCall, result, result2,
          request, normalized, status, path, normalized2>>

----------------------------------------------------------------------------
(* Bounds of the model *)

MaxPipelines == 2
MaxOutputs == 2

----------------------------------------------------------------------------
(* Go values *)

Nil == <<>>
Some(x) == <<x>>
IsNil(p) == p = <<>>
Deref(p) == p[1]

Range(s) == {s[i] : i \in DOMAIN s}
Contains(s, x) == \E i \in DOMAIN s : s[i] = x

SeqsUpTo(S, n) == UNION {[1..k -> S] : k \in 0..n}

\* Characters of the names used, in byte order ('-' < digits < lower case).
Alphabet == "-0123456789abcdefghijklmnopqrstuvwxyz"
CharCode(c) == CHOOSE i \in 1..Len(Alphabet) : SubSeq(Alphabet, i, i) = c

\* strings.Compare(a, b) < 0: byte-wise lexicographic order.
RECURSIVE StrLess(_, _)
StrLess(a, b) ==
    IF Len(b) = 0 THEN FALSE
    ELSE IF Len(a) = 0 THEN TRUE
    ELSE LET ca == CharCode(SubSeq(a, 1, 1))
             cb == CharCode(SubSeq(b, 1, 1))
         IN  IF ca # cb THEN ca < cb
             ELSE StrLess(SubSeq(a, 2, Len(a)), SubSeq(b, 2, Len(b)))

----------------------------------------------------------------------------
(* Names of package loggingv1 and package constants used by the migration *)

OutputNameDefault == "default"
InputNameApplication == "application"
InputNameInfrastructure == "infrastructure"
InputNameAudit == "audit"
ReservedInputNames == {InputNameApplication, InputNameInfrastructure, InputNameAudit}
OutputTypeElasticsearch == "elasticsearch"
OutputTypeLoki == "loki"
LogStoreTypeElasticsearch == "elasticsearch"
LogStoreTypeLokiStack == "lokistack"
LogStoreURL == "https://elasticsearch:9200"
CollectorSecretName == "collector"
OpenshiftNS == "openshift-logging"

----------------------------------------------------------------------------
(* internal/migrations: the default-output migration and the tenant fan-out *)

\* fmt.Sprintf("%s-gateway-http", logStore.LokiStack.Name)
LokiStackGatewayService(ls) ==
    IF IsNil(ls) \/ Deref(ls).LokiStackName = "" THEN ""
    ELSE Deref(ls).LokiStackName \o "-gateway-http"

LokiStackURL(ls, namespace, tenant) ==
    LET service == LokiStackGatewayService(ls)
    IN  IF service = "" THEN ""
        ELSE IF tenant \notin ReservedInputNames THEN ""
        ELSE "https://" \o service \o "." \o namespace \o ".svc:8080/api/logs/v1/" \o tenant

lokiStackOutput(inputName) ==
    CASE inputName = InputNameApplication -> OutputNameDefault \o "-loki-apps"
      [] inputName = InputNameInfrastructure -> OutputNameDefault \o "-loki-infra"
      [] inputName = InputNameAudit -> OutputNameDefault \o "-loki-audit"
      [] OTHER -> OutputNameDefault \o "-" \o inputName

\* The first declared input of that name with a populated source field decides;
\* a declared input with none populated does not end the search.
RECURSIVE inputTypeFromInputs(_, _)
inputTypeFromInputs(inputs, inputName) ==
    IF inputs = <<>> THEN ""
    ELSE LET input == Head(inputs)
         IN  IF input.Name = inputName /\ input.Application THEN InputNameApplication
             ELSE IF input.Name = inputName /\ input.Infrastructure THEN InputNameInfrastructure
             ELSE IF input.Name = inputName /\ input.Audit THEN InputNameAudit
             ELSE inputTypeFromInputs(Tail(inputs), inputName)

getInputTypeFromName(s, inputName) ==
    IF inputName \in ReservedInputNames THEN inputName
    ELSE inputTypeFromInputs(s.Inputs, inputName)

NewDefaultOutput(defaults) ==
    [Name |-> OutputNameDefault,
     Type |-> OutputTypeElasticsearch,
     URL |-> LogStoreURL,
     Secret |-> Some(CollectorSecretName),
     Elasticsearch |-> IF ~IsNil(defaults) /\ ~IsNil(Deref(defaults).Elasticsearch)
                       THEN Deref(defaults).Elasticsearch ELSE Nil]

\* rewriteOutputRefs that stops at the first "default" ref it rewrites.
rewriteFirstOutputRef(refs, input) ==
    [i \in DOMAIN refs |->
        IF refs[i] = OutputNameDefault /\ \A k \in 1..(i - 1) : refs[k] # OutputNameDefault
        THEN lokiStackOutput(input) ELSE refs[i]]

\* The inner loop over pOut.OutputRefs: every "default" ref becomes the tenant output.
rewriteOutputRefs(refs, input) ==
    [i \in DOMAIN refs |->
        IF refs[i] # OutputNameDefault THEN refs[i] ELSE lokiStackOutput(input)]

\* One iteration of the loop over p.InputRefs: the clone for the input at 0-based index i.
clonePipeline(p, i, input) ==
    [Name |-> IF p.Name # "" /\ i > 0 THEN p.Name \o "-" \o ToString(i) ELSE p.Name,
     InputRefs |-> <<input>>,
     OutputRefs |-> rewriteOutputRefs(p.OutputRefs, input)]

clonesOf(p) == [k \in DOMAIN p.InputRefs |-> clonePipeline(p, k - 1, p.InputRefs[k])]

\* The pipelines slice built by the loop over inPipelines.
RECURSIVE fanOutPipelines(_)
fanOutPipelines(inPipelines) ==
    IF inPipelines = <<>> THEN <<>>
    ELSE LET p == Head(inPipelines)
         IN  IF ~Contains(p.OutputRefs, OutputNameDefault)
             THEN <<p>> \o fanOutPipelines(Tail(inPipelines))
             ELSE clonesOf(p) \o fanOutPipelines(Tail(inPipelines))

\* The keys of the needOutput map.
needOutput(inPipelines) ==
    UNION {Range(inPipelines[j].InputRefs) :
             j \in {k \in DOMAIN inPipelines :
                      Contains(inPipelines[k].OutputRefs, OutputNameDefault)}}

tenantOutput(ls, namespace, s, input) ==
    [Name |-> lokiStackOutput(input),
     Type |-> OutputTypeLoki,
     URL |-> LokiStackURL(ls, namespace, getInputTypeFromName(s, input)),
     Secret |-> Nil,
     Elasticsearch |-> Nil]

\* The map is ranged over in an arbitrary order and sort.Slice is not stable: the
\* slice returned holds one output per key, in any arrangement that is ascending
\* by output name.  Here: the possible orders of the keys.
RECURSIVE sortedByOutputName(_)
sortedByOutputName(S) ==
    IF S = {} THEN {<<>>}
    ELSE LET least == {x \in S : \A y \in S : ~StrLess(lokiStackOutput(y), lokiStackOutput(x))}
         IN  UNION {{<<x>> \o rest : rest \in sortedByOutputName(S \ {x})} : x \in least}

\* The possible (outputs, pipelines) results of one call.
processPipelinesForLokiStack(ls, namespace, s) ==
    {[outputs |-> [i \in DOMAIN order |-> tenantOutput(ls, namespace, s, order[i])],
      pipelines |-> fanOutPipelines(s.Pipelines)] :
        order \in sortedByOutputName(needOutput(s.Pipelines))}

\* bootstrap that routes the application logs only.
bootstrapApplicationOnly(s, ls) ==
    IF Len(s.Pipelines) = 0 /\ Len(s.Inputs) = 0 /\ Len(s.Outputs) = 0
       /\ IsNil(s.OutputDefaults) /\ ~IsNil(ls)
    THEN [s EXCEPT
            !.Pipelines = <<[Name |-> "",
                             InputRefs |-> <<InputNameApplication>>,
                             OutputRefs |-> <<OutputNameDefault>>]>>,
            !.Outputs = IF Deref(ls).Type = LogStoreTypeElasticsearch
                        THEN <<NewDefaultOutput(Nil)>> ELSE <<>>]
    ELSE s

\* Lines 21-35: ClusterLogging without ClusterLogForwarder.
bootstrap(s, ls) ==
    IF Len(s.Pipelines) = 0 /\ Len(s.Inputs) = 0 /\ Len(s.Outputs) = 0
       /\ IsNil(s.OutputDefaults) /\ ~IsNil(ls)
    THEN [s EXCEPT
            !.Pipelines = <<[Name |-> "",
                             InputRefs |-> <<InputNameApplication, InputNameInfrastructure>>,
                             OutputRefs |-> <<OutputNameDefault>>]>>,
            !.Outputs = IF Deref(ls).Type = LogStoreTypeElasticsearch
                        THEN <<NewDefaultOutput(Nil)>> ELSE <<>>]
    ELSE s

\* routes.ByOutput has a key for every output name some pipeline references.
routesByOutput(pipelines) == UNION {Range(pipelines[i].OutputRefs) : i \in DOMAIN pipelines}

\* The loop over spec.Outputs: st carries defaultOutput, replaced and outputs.
RECURSIVE replaceDefault(_, _)
replaceDefault(outs, st) ==
    IF outs = <<>> THEN st
    ELSE LET output == Head(outs)
         IN  IF output.Name = OutputNameDefault
             THEN LET d == IF ~IsNil(output.Elasticsearch)
                           THEN [st.defaultOutput EXCEPT !.Elasticsearch = output.Elasticsearch]
                           ELSE st.defaultOutput
                  IN  replaceDefault(Tail(outs),
                          [defaultOutput |-> d, replaced |-> TRUE,
                           outputs |-> Append(st.outputs, d)])
             ELSE replaceDefault(Tail(outs), [st EXCEPT !.outputs = Append(@, output)])

\* resolveDefault that appends the default output whether or not one was replaced.
resolveDefaultAlwaysAppend(s, ls) ==
    IF OutputNameDefault \in routesByOutput(s.Pipelines)
    THEN IF IsNil(ls) THEN s
         ELSE LET st == replaceDefault(s.Outputs,
                            [defaultOutput |-> NewDefaultOutput(s.OutputDefaults),
                             replaced |-> FALSE, outputs |-> <<>>])
              IN  [s EXCEPT !.Outputs = Append(st.outputs, st.defaultOutput)]
    ELSE s

\* Lines 43-70: Migrate ClusterLogForwarder.  The function has one result, the spec.
resolveDefault(s, ls) ==
    IF OutputNameDefault \in routesByOutput(s.Pipelines)
    THEN IF IsNil(ls) THEN s
         ELSE LET st == replaceDefault(s.Outputs,
                            [defaultOutput |-> NewDefaultOutput(s.OutputDefaults),
                             replaced |-> FALSE, outputs |-> <<>>])
              IN  [s EXCEPT !.Outputs = IF st.replaced THEN st.outputs
                                        ELSE Append(st.outputs, st.defaultOutput)]
    ELSE s

\* The possible runs of MigrateDefaultOutput: the spec returned, with the call of
\* processPipelinesForLokiStack it made (Nil when it made none).
MigrateDefaultOutput(s, ls) ==
    LET s1 == bootstrap(s, ls)
    IN  IF ~IsNil(ls) /\ Deref(ls).Type = LogStoreTypeLokiStack
        THEN {[out |-> resolveDefault([s1 EXCEPT !.Outputs = @ \o r.outputs,
                                                 !.Pipelines = r.pipelines], ls),
               loki |-> Some([spec |-> s1, outputs |-> r.outputs, pipelines |-> r.pipelines])] :
                 r \in processPipelinesForLokiStack(ls, OpenshiftNS, s1)}
        ELSE {[out |-> resolveDefault(s1, ls), loki |-> Nil]}

MigrateClusterLogForwarderSpec(s, ls) == MigrateDefaultOutput(s, ls)

----------------------------------------------------------------------------
(* Names of package logforward (v1alpha1) and package constants used by k8shandler *)

InternalOutputName == "clo-default-output-es"
DefaultAppPipelineName == "clo-default-app-pipeline"
DefaultInfraPipelineName == "clo-default-infra-pipeline"
LogStoreService == "elasticsearch.openshift-logging.svc:9200"
LegacyCollectorSecretName == "fluentd"
OutputTypeForward == "forward"
OutputTypeSyslog == "syslog"
LogSourceTypeApp == "logs.app"
LogSourceTypeInfra == "logs.infra"
LogSourceTypeAudit == "logs.audit"
outputTypes == {OutputTypeElasticsearch, OutputTypeForward, OutputTypeSyslog}
sourceTypes == {LogSourceTypeApp, LogSourceTypeInfra, LogSourceTypeAudit}

Accepted == "Accepted"
Degraded == "Degraded"
Dropped == "Dropped"

\* An entity's status record, as NewOutputStatusNamed / NewPipelineStatusNamed make it.
NewStatusNamed(name) == [Name |-> name, State |-> "", Conditions |-> <<>>]
AddCondition(st, reason) == [st EXCEPT !.Conditions = Append(@, reason)]
EmptyStatus == [LogSources |-> {}, Outputs |-> <<>>, Pipelines |-> <<>>]
EmptyForwardingSpec == [Outputs |-> <<>>, Pipelines |-> <<>>, DisableDefaultForwarding |-> FALSE]

----------------------------------------------------------------------------
(* package k8shandler: the output validator and the pipeline validator *)

\* clusterRequest.GetSecret: the secret (nil unless found) and the error
\* ("" for nil, "NotFound", or "Other" for any other failure of the lookup).
GetSecret(req, name) ==
    LET s == req.Secrets[name]
    IN  CASE s = "found" -> [secret |-> Some({"shared_key"}), err |-> ""]
          [] s = "nokey" -> [secret |-> Some({}), err |-> ""]
          [] s = "notfound" -> [secret |-> Nil, err |-> "NotFound"]
          [] OTHER -> [secret |-> Nil, err |-> "Other"]

verifyOutputSecret(output, secret, st) ==
    IF output.Type # OutputTypeForward \/ IsNil(secret) THEN st
    ELSE IF "shared_key" \notin Deref(secret)
         THEN AddCondition(st, "SecretMissingSharedKey")
         ELSE st

\* Lines 246-256: the secret of an output.  The error of GetSecret is only ever
\* tested with errors.IsNotFound.
verifySecret(req, output, st) ==
    IF IsNil(output.Secret) THEN st
    ELSE IF Deref(output.Secret) = "" THEN AddCondition(st, "MissingSecretName")
    ELSE LET got == GetSecret(req, Deref(output.Secret))
             st1 == IF got.err = "NotFound" THEN AddCondition(st, "SecretDoesNotExist") ELSE st
         IN  verifyOutputSecret(output, got.secret, st1)

IndexedName(kind, i) == kind \o "[" \o ToString(i) \o "]"

\* outputStatus without the test of refs.Has(output.Name).
outputStatusNoUniqueName(req, output, i, refs) ==
    LET s0 == [NewStatusNamed(output.Name) EXCEPT !.State = Dropped]
        s1 == IF output.Name = ""
              THEN AddCondition([s0 EXCEPT !.Name = IndexedName("output", i)], "MissingName")
              ELSE s0
        s2 == IF output.Name = InternalOutputName
              THEN AddCondition([s1 EXCEPT !.Name = IndexedName("output", i)], "ReservedNameConflict")
              ELSE s1
        s4 == IF output.Type = "" THEN AddCondition(s2, "MissingType") ELSE s2
        s5 == IF output.Type \notin outputTypes THEN AddCondition(s4, "UnrecognizedType") ELSE s4
        s6 == IF output.Endpoint = "" THEN AddCondition(s5, "MissingEndpoint") ELSE s5
    IN  verifySecret(req, output, s6)

\* Lines 223-256: the status of the output at 0-based index i, given the refs so far.
outputStatus(req, output, i, refs) ==
    LET s0 == [NewStatusNamed(output.Name) EXCEPT !.State = Dropped]
        s1 == IF output.Name = ""
              THEN AddCondition([s0 EXCEPT !.Name = IndexedName("output", i)], "MissingName")
              ELSE s0
        s2 == IF output.Name = InternalOutputName
              THEN AddCondition([s1 EXCEPT !.Name = IndexedName("output", i)], "ReservedNameConflict")
              ELSE s1
        s3 == IF output.Name \in refs
              THEN AddCondition([s2 EXCEPT !.Name = IndexedName("output", i)], "NonUniqueName")
              ELSE s2
        s4 == IF output.Type = "" THEN AddCondition(s3, "MissingType") ELSE s3
        s5 == IF output.Type \notin outputTypes THEN AddCondition(s4, "UnrecognizedType") ELSE s4
        s6 == IF output.Endpoint = "" THEN AddCondition(s5, "MissingEndpoint") ELSE s5
    IN  verifySecret(req, output, s6)

\* The loop of gatherAndVerifyOutputRefs from index i (1-based here) on; acc carries
\* refs, outputs and status.Outputs.
RECURSIVE gatherFrom(_, _, _, _)
gatherFrom(req, outs, i, acc) ==
    IF i > Len(outs) THEN acc
    ELSE LET output == outs[i]
             st == outputStatus(req, output, i - 1, acc.refs)
         IN  IF Len(st.Conditions) = 0
             THEN gatherFrom(req, outs, i + 1,
                      [refs |-> acc.refs \cup {output.Name},
                       outputs |-> Append(acc.outputs, output),
                       statuses |-> Append(acc.statuses, [st EXCEPT !.State = Accepted])])
             ELSE gatherFrom(req, outs, i + 1, [acc EXCEPT !.statuses = Append(@, st)])

gatherAndVerifyOutputRefs(req, fspec) ==
    gatherFrom(req, fspec.Outputs, 1, [refs |-> {}, outputs |-> <<>>, statuses |-> <<>>])

\* Lines 159-180: the name and source checks of the pipeline at 0-based index i.
pipelineNameStatus(pipeline, i, pipelineNames) ==
    LET s0 == NewStatusNamed(pipeline.Name)
        s1 == IF pipeline.Name = ""
              THEN AddCondition([s0 EXCEPT !.Name = IndexedName("pipeline", i)], "MissingName")
              ELSE s0
        s2 == IF pipeline.Name = DefaultAppPipelineName \/ pipeline.Name = DefaultInfraPipelineName
              THEN AddCondition([s1 EXCEPT !.Name = IndexedName("pipeline", i)], "ReservedNameConflict")
              ELSE s1
        s3 == IF pipeline.Name \in pipelineNames
              THEN AddCondition([s2 EXCEPT !.Name = IndexedName("pipeline", i)], "UniqueName")
              ELSE s2
        s4 == IF pipeline.SourceType = "" THEN AddCondition(s3, "MissingSource") ELSE s3
        s5 == IF pipeline.SourceType \notin sourceTypes
              THEN AddCondition(s4, "UnrecognizedSourceType") ELSE s4
    IN  IF Len(s5.Conditions) > 0 THEN [s5 EXCEPT !.State = Dropped] ELSE s5

\* resolveRefs without the test of outputRefs.Has(output): every ref is kept.
resolveRefsKeepAll(refs, outputRefs, acc) == [acc EXCEPT !.kept = refs]

\* Lines 186-193: the refs kept, and one UnrecognizedOutputRef condition per ref not kept.
RECURSIVE resolveRefs(_, _, _)
resolveRefs(refs, outputRefs, acc) ==
    IF refs = <<>> THEN acc
    ELSE IF Head(refs) \in outputRefs
         THEN resolveRefs(Tail(refs), outputRefs, [acc EXCEPT !.kept = Append(@, Head(refs))])
         ELSE resolveRefs(Tail(refs), outputRefs,
                  [acc EXCEPT !.st = AddCondition(@, "UnrecognizedOutputRef")])

\* Lines 158-211: the loop over the pipelines from index i (1-based here) on.
RECURSIVE pipelinesFrom(_, _, _, _)
pipelinesFrom(pipes, outputRefs, i, acc) ==
    IF i > Len(pipes) THEN acc
    ELSE LET pipeline == pipes[i]
             st == pipelineNameStatus(pipeline, i - 1, acc.pipelineNames)
         IN  IF st.State = Dropped
             THEN pipelinesFrom(pipes, outputRefs, i + 1, [acc EXCEPT !.statuses = Append(@, st)])
             ELSE LET r == resolveRefs(pipeline.OutputRefs, outputRefs, [kept |-> <<>>, st |-> st])
                      newPipeline == [Name |-> pipeline.Name, SourceType |-> pipeline.SourceType,
                                      OutputRefs |-> r.kept]
                  IN  IF Len(r.kept) > 0
                      THEN pipelinesFrom(pipes, outputRefs, i + 1,
                             [pipelineNames |-> acc.pipelineNames \cup {pipeline.Name},
                              logSources |-> acc.logSources \cup {pipeline.SourceType},
                              pipelines |-> Append(acc.pipelines, newPipeline),
                              statuses |-> Append(acc.statuses,
                                  IF Len(r.kept) # Len(pipeline.OutputRefs)
                                  THEN AddCondition([r.st EXCEPT !.State = Degraded], "MissingOutputs")
                                  ELSE [r.st EXCEPT !.State = Accepted])])
                      ELSE pipelinesFrom(pipes, outputRefs, i + 1,
                             [acc EXCEPT !.statuses = Append(@,
                                  AddCondition([r.st EXCEPT !.State = Dropped], "MissingOutputs"))])

\* Lines 100-147: forwarding undefined, the operator-managed log store is used.
defaultForwarding(req) ==
    [normalized |->
        [Outputs |-> <<[Name |-> InternalOutputName, Type |-> OutputTypeElasticsearch,
                        Endpoint |-> LogStoreService, Secret |-> Some(LegacyCollectorSecretName)]>>,
         Pipelines |-> <<[Name |-> DefaultAppPipelineName, SourceType |-> LogSourceTypeApp,
                          OutputRefs |-> <<InternalOutputName>>],
                         [Name |-> DefaultInfraPipelineName, SourceType |-> LogSourceTypeInfra,
                          OutputRefs |-> <<InternalOutputName>>]>>,
         DisableDefaultForwarding |-> FALSE],
     status |->
        [LogSources |-> {LogSourceTypeApp, LogSourceTypeInfra},
         Outputs |-> <<[Name |-> InternalOutputName, State |-> Accepted,
                        Conditions |-> <<"ConditionsMet">>]>>,
         Pipelines |-> <<[Name |-> DefaultAppPipelineName, State |-> Accepted,
                          Conditions |-> <<"ConditionsMet">>]>>],
     path |-> "default"]

\* normalizeLogForwarding: the ForwardingSpec returned, the status it leaves in the
\* request and the return statement it left by.
\* The function has one result, the ForwardingSpec: it returns no error.
normalizeLogForwarding(req) ==
    LET fspec == req.ForwardingSpec
    IN  IF ~IsNil(req.LogStore) /\ Deref(req.LogStore) = LogStoreTypeElasticsearch
           /\ ~fspec.DisableDefaultForwarding /\ Len(fspec.Pipelines) = 0
        THEN defaultForwarding(req)
        ELSE IF ~req.ForwardingEnabled
        THEN [normalized |-> EmptyForwardingSpec, status |-> req.Status, path |-> "disabled"]
        ELSE LET g == gatherAndVerifyOutputRefs(req, fspec)
                 p == pipelinesFrom(fspec.Pipelines, g.refs, 1,
                          [pipelineNames |-> {}, logSources |-> {}, pipelines |-> <<>>,
                           statuses |-> <<>>])
             IN  [normalized |-> [Outputs |-> g.outputs, Pipelines |-> p.pipelines,
                                  DisableDefaultForwarding |-> fspec.DisableDefaultForwarding],
                  status |-> [LogSources |-> p.logSources, Outputs |-> g.statuses,
                              Pipelines |-> p.statuses],
                  path |-> "validated"]

----------------------------------------------------------------------------
(* The inputs the model draws *)

MigPipeline(name, inputRefs, outputRefs) ==
    [Name |-> name, InputRefs |-> inputRefs, OutputRefs |-> outputRefs]
MigOutput(name, type, es) ==
    [Name |-> name, Type |-> type, URL |-> "https://" \o name, Secret |-> Nil, Elasticsearch |-> es]
MigInput(name, app, infra, audit) ==
    [Name |-> name, Application |-> app, Infrastructure |-> infra, Audit |-> audit]
LokiStore(name) == Some([Type |-> LogStoreTypeLokiStack, LokiStackName |-> name])
ElasticStore == Some([Type |-> LogStoreTypeElasticsearch, LokiStackName |-> ""])

\* Pipelines of the fan-out runs: unnamed and named, with a name that a clone's
\* generated name can meet; no, several and repeated inputs; with and without
\* the reserved output, once and twice.
FanOutNames == {"", "p", "p-1"}
FanOutInputRefs ==
    {<<>>, <<InputNameAudit, "custom">>, <<"custom", InputNameInfrastructure, "custom">>}
FanOutOutputRefs ==
    {<<"other">>, <<OutputNameDefault>>, <<OutputNameDefault, "other", OutputNameDefault>>}
FanOutPipelineChoices ==
    {MigPipeline(n, i, o) : n \in FanOutNames, i \in FanOutInputRefs, o \in FanOutOutputRefs}
FanOutInputs ==
    {<<>>, <<MigInput("custom", FALSE, TRUE, FALSE)>>,
     <<MigInput("custom", FALSE, FALSE, FALSE), MigInput("custom", FALSE, FALSE, TRUE)>>}

\* Pipelines, outputs and defaults of the default-output runs.
DefaultPipelineChoices ==
    {MigPipeline("p", <<InputNameApplication>>, <<OutputNameDefault>>),
     MigPipeline("", <<>>, <<OutputNameDefault>>),
     MigPipeline("q", <<"custom">>, <<"other">>)}
DefaultOutputChoices ==
    {MigOutput(OutputNameDefault, OutputTypeSyslog, Nil),
     MigOutput(OutputNameDefault, OutputTypeElasticsearch, Some("tuned")),
     MigOutput("other", OutputTypeSyslog, Nil)}
DefaultsChoices ==
    {Nil, Some([Elasticsearch |-> Nil]), Some([Elasticsearch |-> Some("defaults")])}
LogStoreChoices == {Nil, ElasticStore, LokiStore("lokistack"), LokiStore("")}

NoMigration ==
    /\ spec = Nil
    /\ logStore = Nil
    /\ lokiCall = Nil
    /\ result = Nil
    /\ result2 = Nil

NoNormalization ==
    /\ request = Nil
    /\ normalized = Nil
    /\ status = Nil
    /\ path = ""
    /\ normalized2 = Nil

InitFanOut ==
    /\ mode = "migrate"
    /\ pc = "start"
    /\ logStore = LokiStore("lokistack")
    /\ \E ps \in SeqsUpTo(FanOutPipelineChoices, MaxPipelines), ins \in FanOutInputs :
          spec = Some([Pipelines |-> ps, Inputs |-> ins, Outputs |-> <<>>,
                       OutputDefaults |-> Nil])
    /\ lokiCall = Nil /\ result = Nil /\ result2 = Nil
    /\ NoNormalization

InitDefault ==
    /\ mode = "migrate"
    /\ pc = "start"
    /\ logStore \in LogStoreChoices
    /\ \E ps \in SeqsUpTo(DefaultPipelineChoices, MaxPipelines),
          os \in SeqsUpTo(DefaultOutputChoices, MaxOutputs),
          d \in DefaultsChoices :
          spec = Some([Pipelines |-> ps, Inputs |-> <<>>, Outputs |-> os,
                       OutputDefaults |-> d])
    /\ lokiCall = Nil /\ result = Nil /\ result2 = Nil
    /\ NoNormalization

----------------------------------------------------------------------------
(* The caller of the migration: it migrates the spec, then migrates the result *)

Migrate ==
    /\ mode = "migrate" /\ pc = "start"
    /\ \E r \in MigrateClusterLogForwarderSpec(Deref(spec), logStore) :
          /\ result' = Some(r.out)
          /\ lokiCall' = r.loki
    /\ pc' = "once"
    /\ UNCHANGED <<mode, spec, logStore, result2, request, normalized, status, path, normalized2>>

MigrateAgain ==
    /\ mode = "migrate" /\ pc = "once"
    /\ \E r \in MigrateClusterLogForwarderSpec(Deref(result), logStore) :
          result2' = Some(r.out)
    /\ pc' = "twice"
    /\ UNCHANGED <<mode, spec, logStore, lokiCall, result, request, normalized, status, path, normalized2>>

InitMigrate == InitFanOut \/ InitDefault
NextMigrate == Migrate \/ MigrateAgain
SpecMigrate == InitMigrate /\ [][NextMigrate]_vars

----------------------------------------------------------------------------
(* The inputs the model draws for normalizeLogForwarding *)

FwdOutput(name, type, endpoint, secret) ==
    [Name |-> name, Type |-> type, Endpoint |-> endpoint, Secret |-> secret]
FwdPipeline(name, sourceType, outputRefs) ==
    [Name |-> name, SourceType |-> sourceType, OutputRefs |-> outputRefs]

SecretStates == {"found", "nokey", "notfound", "error"}

\* Outputs: valid ones under two names, ones whose validity rests on the secret,
\* and one per flaw of name, type, endpoint and secret name.
FwdOutputChoices ==
    {FwdOutput("a", OutputTypeElasticsearch, "ep", Nil),
     FwdOutput("b", OutputTypeElasticsearch, "ep", Nil),
     FwdOutput("a", OutputTypeForward, "ep", Some("s")),
     FwdOutput("b", OutputTypeSyslog, "ep", Some("s")),
     FwdOutput("", OutputTypeElasticsearch, "ep", Nil),
     FwdOutput(InternalOutputName, OutputTypeElasticsearch, "ep", Nil),
     FwdOutput("b", "", "ep", Nil),
     FwdOutput("a", "bogus", "", Some(""))}

\* Pipelines: valid ones under two names with refs that resolve fully, partly or
\* not at all, and one per flaw of name and source.
FwdPipelineChoices ==
    {FwdPipeline("x", LogSourceTypeApp, <<"a", "b">>),
     FwdPipeline("x", LogSourceTypeInfra, <<"b", "c", "a", "b">>),
     FwdPipeline("y", LogSourceTypeAudit, <<"c">>),
     FwdPipeline("y", LogSourceTypeApp, <<>>),
     FwdPipeline("", LogSourceTypeApp, <<"a">>),
     FwdPipeline(DefaultInfraPipelineName, LogSourceTypeInfra, <<"a">>),
     FwdPipeline("y", "", <<"a">>),
     FwdPipeline("x", "bogus", <<"b">>)}

FewPipelines ==
    {<<FwdPipeline("x", LogSourceTypeApp, <<"a", "b">>)>>,
     <<FwdPipeline("x", LogSourceTypeApp, <<"b", "c">>),
       FwdPipeline("y", LogSourceTypeInfra, <<"a">>)>>,
     <<FwdPipeline("x", LogSourceTypeApp, <<"a">>),
       FwdPipeline("x", LogSourceTypeInfra, <<"a", "b">>)>>}
FewOutputs ==
    {<<>>,
     <<FwdOutput("a", OutputTypeElasticsearch, "ep", Nil)>>,
     <<FwdOutput("a", OutputTypeElasticsearch, "ep", Nil),
       FwdOutput("b", OutputTypeSyslog, "ep", Nil)>>,
     <<FwdOutput("a", OutputTypeElasticsearch, "", Nil),
       FwdOutput("b", OutputTypeSyslog, "ep", Nil)>>}
ClusterLogStores == {Nil, Some(LogStoreTypeElasticsearch)}

Request(store, enabled, outs, pipes, disable, secret) ==
    [LogStore |-> store,
     ForwardingEnabled |-> enabled,
     ForwardingSpec |-> [Outputs |-> outs, Pipelines |-> pipes,
                         DisableDefaultForwarding |-> disable],
     Status |-> EmptyStatus,
     Secrets |-> [n \in {"s", LegacyCollectorSecretName} |->
                    IF n = "s" THEN secret ELSE "found"]]

\* Rich outputs under every state of the secret.
InitOutputs ==
    /\ mode = "normalize"
    /\ pc = "start"
    /\ \E os \in SeqsUpTo(FwdOutputChoices, MaxOutputs), ps \in FewPipelines,
          secret \in SecretStates :
          request = Some(Request(Nil, TRUE, os, ps, FALSE, secret))
    /\ normalized = Nil /\ status = Nil /\ path = "" /\ normalized2 = Nil
    /\ NoMigration

\* Rich pipelines under every cluster configuration.
InitPipelines ==
    /\ mode = "normalize"
    /\ pc = "start"
    /\ \E ps \in SeqsUpTo(FwdPipelineChoices, MaxPipelines), os \in FewOutputs,
          store \in ClusterLogStores, enabled \in BOOLEAN, disable \in BOOLEAN :
          request = Some(Request(store, enabled, os, ps, disable, "found"))
    /\ normalized = Nil /\ status = Nil /\ path = "" /\ normalized2 = Nil
    /\ NoMigration

----------------------------------------------------------------------------
(* The caller of the normalizer (generateCollectorConfig): it normalizes the
   request's ForwardingSpec, then normalizes the result *)

Normalize ==
    /\ mode = "normalize" /\ pc = "start"
    /\ LET r == normalizeLogForwarding(Deref(request))
       IN  /\ normalized' = Some(r.normalized)
           /\ status' = Some(r.status)
           /\ path' = r.path
    /\ pc' = "once"
    /\ UNCHANGED <<mode, spec, logStore, lokiCall, result, result2, request, normalized2>>

NormalizeAgain ==
    /\ mode = "normalize" /\ pc = "once"
    /\ LET r == normalizeLogForwarding(
                   [Deref(request) EXCEPT !.ForwardingSpec = Deref(normalized),
                                          !.Status = Deref(status)])
       IN  normalized2' = Some(r.normalized)
    /\ pc' = "twice"
    /\ UNCHANGED <<mode, spec, logStore, lokiCall, result, result2, request, normalized,
                   status, path>>

InitNormalize == InitOutputs \/ InitPipelines
NextNormalize == Normalize \/ NormalizeAgain
SpecNormalize == InitNormalize /\ [][NextNormalize]_vars

Init == InitMigrate \/ InitNormalize
Next == Migrate \/ MigrateAgain \/ Normalize \/ NormalizeAgain
Spec == Init /\ [][Next]_vars

----------------------------------------------------------------------------
(* What the claims read *)

Done == pc # "start"
Validated == mode = "normalize" /\ Done /\ path = "validated"
Declared == Deref(request).ForwardingSpec
Norm == Deref(normalized)
Stat == Deref(status)

NamesOf(seq) == {seq[i].Name : i \in DOMAIN seq}
NoTwoShareName(seq) == \A i, j \in DOMAIN seq : seq[i].Name = seq[j].Name => i = j
Kept(st) == st.State \in {Accepted, Degraded}

\* The declared refs that are names of accepted outputs, in declared order.
FilterRefs(refs, names) == SelectSeq(refs, LAMBDA r : r \in names)

\* The number of pipelines kept among the first i declared.
KeptUpTo(i) == Cardinality({j \in 1..i : Kept(Stat.Pipelines[j])})

----------------------------------------------------------------------------
(* C1: every declared pipeline that is kept (Accepted or Degraded) appears in
   the normalized list with exactly its declared outputRefs filtered to the
   accepted-output names, in declared order; it is Accepted when no ref was
   removed and Degraded with condition MissingOutputs when some were; a
   pipeline whose filtered ref list is empty is Dropped and not in the
   normalized list; so every normalized pipeline references accepted outputs
   only. *)
C1_PipelineRefsFiltered ==
    Validated =>
        LET names == NamesOf(Norm.Outputs)
        IN  /\ Len(Stat.Pipelines) = Len(Declared.Pipelines)
            /\ Len(Norm.Pipelines) = KeptUpTo(Len(Declared.Pipelines))
            /\ \A i \in DOMAIN Declared.Pipelines :
                  LET p == Declared.Pipelines[i]
                      st == Stat.Pipelines[i]
                      filtered == FilterRefs(p.OutputRefs, names)
                  IN  /\ Kept(st) =>
                            /\ Norm.Pipelines[KeptUpTo(i)].Name = p.Name
                            /\ Norm.Pipelines[KeptUpTo(i)].OutputRefs = filtered
                            /\ filtered # <<>>
                            /\ (filtered = p.OutputRefs => st.State = Accepted)
                            /\ (filtered # p.OutputRefs =>
                                   st.State = Degraded /\ Contains(st.Conditions, "MissingOutputs"))
                      /\ filtered = <<>> => st.State = Dropped
            /\ \A k \in DOMAIN Norm.Pipelines :
                  Range(Norm.Pipelines[k].OutputRefs) \subseteq names

\* A Degraded pipeline that lost a ref, beside an Accepted one and one Dropped
\* for having no ref left.
C1_Witness ==
    /\ Validated
    /\ \E i, j \in DOMAIN Declared.Pipelines :
          /\ Stat.Pipelines[i].State = Degraded
          /\ Len(Norm.Pipelines[KeptUpTo(i)].OutputRefs) \in 1..(Len(Declared.Pipelines[i].OutputRefs) - 1)
          /\ Stat.Pipelines[j].State = Dropped
          /\ Stat.Pipelines[j].Conditions = <<"UnrecognizedOutputRef", "MissingOutputs">>

----------------------------------------------------------------------------
(* C2: the normalized result never holds two outputs of one name nor two
   pipelines of one name; of two declared outputs sharing a name the later is
   Dropped with condition NonUniqueName once the earlier is Accepted (and is
   flagged so only then), and a pipeline whose name an earlier kept pipeline
   uses is Dropped with condition UniqueName. *)
C2_UniqueNames ==
    (mode = "normalize" /\ Done) =>
        /\ NoTwoShareName(Norm.Outputs)
        /\ NoTwoShareName(Norm.Pipelines)
        /\ path = "validated" =>
              /\ Len(Stat.Outputs) = Len(Declared.Outputs)
              /\ \A j \in DOMAIN Declared.Outputs :
                    LET earlier == {i \in 1..(j - 1) :
                                      /\ Declared.Outputs[i].Name = Declared.Outputs[j].Name
                                      /\ Stat.Outputs[i].State = Accepted}
                    IN  /\ earlier # {} =>
                              /\ Stat.Outputs[j].State = Dropped
                              /\ Contains(Stat.Outputs[j].Conditions, "NonUniqueName")
                        /\ Contains(Stat.Outputs[j].Conditions, "NonUniqueName") => earlier # {}
              /\ \A j \in DOMAIN Declared.Pipelines :
                    (\E i \in 1..(j - 1) :
                        /\ Declared.Pipelines[i].Name = Declared.Pipelines[j].Name
                        /\ Kept(Stat.Pipelines[i]))
                    => /\ Stat.Pipelines[j].State = Dropped
                       /\ Contains(Stat.Pipelines[j].Conditions, "UniqueName")

\* Two outputs of one name, the first Accepted and the second Dropped for its
\* name alone, in a run that also drops a pipeline for its name alone.
C2_Witness ==
    /\ Validated
    /\ \E i, j \in DOMAIN Declared.Outputs :
          /\ i < j
          /\ Declared.Outputs[i].Name = Declared.Outputs[j].Name
          /\ Stat.Outputs[i].State = Accepted
          /\ Stat.Outputs[j].Conditions = <<"NonUniqueName">>
    /\ \E j \in DOMAIN Declared.Pipelines : Stat.Pipelines[j].Conditions = <<"UniqueName">>

----------------------------------------------------------------------------
(* C6: when the lookup of an output's secret (non-empty name) fails with an
   error other than not-found, normalization aborts: it returns no normalized
   spec, and that output is not accepted. *)
LookupFails(output) ==
    /\ ~IsNil(output.Secret)
    /\ Deref(output.Secret) # ""
    /\ GetSecret(Deref(request), Deref(output.Secret)).err = "Other"

C6_SecretErrorAborts ==
    Validated =>
        \A i \in DOMAIN Declared.Outputs :
            LookupFails(Declared.Outputs[i]) =>
                /\ IsNil(normalized)
                /\ Stat.Outputs[i].State # Accepted

----------------------------------------------------------------------------
(* What the fan-out claims read: the call of processPipelinesForLokiStack *)

Migrated == mode = "migrate" /\ Done
FannedOut == Migrated /\ ~IsNil(lokiCall)
FanIn == Deref(lokiCall).spec
FanPipelines == Deref(lokiCall).pipelines
FanOutputs == Deref(lokiCall).outputs

RefsDefault(p) == Contains(p.OutputRefs, "default")

\* The per-tenant output name of an input.
TenantOutputName(input) ==
    CASE input = "application" -> "default-loki-apps"
      [] input = "infrastructure" -> "default-loki-infra"
      [] input = "audit" -> "default-loki-audit"
      [] OTHER -> "default-" \o input

\* The number of result pipelines that stand for the first j declared ones.
RECURSIVE PlacesBefore(_, _)
PlacesBefore(pipes, j) ==
    IF j = 0 THEN 0
    ELSE PlacesBefore(pipes, j - 1)
         + (IF RefsDefault(pipes[j]) THEN Len(pipes[j].InputRefs) ELSE 1)

----------------------------------------------------------------------------
(* C3: with a LokiStack store, a pipeline that does not reference the reserved
   default output is passed through unchanged at its relative position; one
   that does is replaced, in place, by one clone per entry of its inputRefs in
   declaration order; clone k has the single input k, every default ref
   rewritten to that input's per-tenant output name and every other ref
   untouched; afterwards no pipeline references the reserved default name. *)
C3_FanOutInPlace ==
    FannedOut =>
        LET in == FanIn.Pipelines
            out == FanPipelines
        IN  /\ Len(out) = PlacesBefore(in, Len(in))
            /\ \A j \in DOMAIN in :
                  LET base == PlacesBefore(in, j - 1)
                  IN  IF ~RefsDefault(in[j])
                      THEN out[base + 1] = in[j]
                      ELSE \A k \in DOMAIN in[j].InputRefs :
                              LET clone == out[base + k]
                                  input == in[j].InputRefs[k]
                              IN  /\ clone.InputRefs = <<input>>
                                  /\ Len(clone.OutputRefs) = Len(in[j].OutputRefs)
                                  /\ \A m \in DOMAIN in[j].OutputRefs :
                                        clone.OutputRefs[m] =
                                            IF in[j].OutputRefs[m] = "default"
                                            THEN TenantOutputName(input)
                                            ELSE in[j].OutputRefs[m]
            /\ \A q \in DOMAIN out : ~RefsDefault(out[q])

\* A pipeline passed through, after one that named the default output twice and
\* was cloned for three inputs.
C3_Witness ==
    /\ FannedOut
    /\ Len(FanIn.Pipelines) = 2
    /\ FanIn.Pipelines[1].OutputRefs = <<"default", "other", "default">>
    /\ Len(FanIn.Pipelines[1].InputRefs) = 3
    /\ ~RefsDefault(FanIn.Pipelines[2])
    /\ Len(FanPipelines) = 4
    /\ FanPipelines[4] = FanIn.Pipelines[2]

----------------------------------------------------------------------------
(* C5: whenever a pipeline references the reserved default output and no log
   store is supplied, the migration reports failure: it returns no spec. *)
C5_NoLogStoreFails ==
    (Migrated /\ IsNil(logStore)
       /\ \E i \in DOMAIN Deref(spec).Pipelines : RefsDefault(Deref(spec).Pipelines[i]))
    => IsNil(result)

----------------------------------------------------------------------------
(* C7: the output list the default-output migration returns holds at most one
   output named with the reserved default name. *)
C7_OneDefaultOutput ==
    Migrated =>
        Cardinality({i \in DOMAIN Deref(result).Outputs :
                        Deref(result).Outputs[i].Name = "default"}) <= 1

----------------------------------------------------------------------------
(* C9: an input of a default-referencing pipeline whose tenant does not resolve
   (no reserved input name, no declared input of that name with a populated
   application, infrastructure or audit field) gets no synthesized output;
   every synthesized output has a non-empty URL; the synthesized outputs are in
   ascending name order. *)
Resolvable(s, input) ==
    \/ input \in {"application", "infrastructure", "audit"}
    \/ \E i \in DOMAIN s.Inputs :
          /\ s.Inputs[i].Name = input
          /\ (s.Inputs[i].Application \/ s.Inputs[i].Infrastructure \/ s.Inputs[i].Audit)

C9_OnlyResolvableTenants ==
    FannedOut =>
        /\ \A j \in DOMAIN FanIn.Pipelines :
              RefsDefault(FanIn.Pipelines[j]) =>
                  \A k \in DOMAIN FanIn.Pipelines[j].InputRefs :
                      LET input == FanIn.Pipelines[j].InputRefs[k]
                      IN  ~Resolvable(FanIn, input) =>
                              TenantOutputName(input) \notin NamesOf(FanOutputs)
        /\ \A i \in DOMAIN FanOutputs : FanOutputs[i].URL # ""
        /\ \A i, j \in DOMAIN FanOutputs : i < j => ~StrLess(FanOutputs[j].Name, FanOutputs[i].Name)

----------------------------------------------------------------------------
(* C10: if the explicitly named pipelines handed to the fan-out have pairwise
   distinct names, so have the explicitly named pipelines it returns. *)
ExplicitNamesDistinct(pipes) ==
    \A i, j \in DOMAIN pipes :
        (pipes[i].Name # "" /\ pipes[i].Name = pipes[j].Name) => i = j

C10_FanOutKeepsNamesDistinct ==
    (FannedOut /\ ExplicitNamesDistinct(FanIn.Pipelines)) => ExplicitNamesDistinct(FanPipelines)

----------------------------------------------------------------------------
(* What the bootstrap and idempotence claims read *)

IsEmptySpec(s) ==
    Len(s.Pipelines) = 0 /\ Len(s.Inputs) = 0 /\ Len(s.Outputs) = 0 /\ IsNil(s.OutputDefaults)

EmptySpecMigrated == Migrated /\ IsEmptySpec(Deref(spec)) /\ logStore = ElasticStore

EmptySpecNormalized ==
    /\ mode = "normalize" /\ Done
    /\ Declared = [Outputs |-> <<>>, Pipelines |-> <<>>, DisableDefaultForwarding |-> FALSE]
    /\ Deref(request).LogStore = Some("elasticsearch")

\* The normalizer's bootstrap result: one pipeline per source, one output of the store's type.
TwoPipelinesOneOutput ==
    /\ Len(Norm.Pipelines) = 2
    /\ Norm.Pipelines[1].SourceType = "logs.app"
    /\ Norm.Pipelines[2].SourceType = "logs.infra"
    /\ \A i \in 1..2 : Norm.Pipelines[i].OutputRefs = <<InternalOutputName>>
    /\ Len(Norm.Outputs) = 1
    /\ Norm.Outputs[1].Name = InternalOutputName
    /\ Norm.Outputs[1].Type = "elasticsearch"

OneDefaultOutput ==
    /\ Len(Deref(result).Outputs) = 1
    /\ Deref(result).Outputs[1].Name = "default"
    /\ Deref(result).Outputs[1].Type = "elasticsearch"

----------------------------------------------------------------------------
(* C4 as stated: an empty spec with an Elasticsearch store yields exactly two
   pipelines, one routing application and one routing infrastructure to the
   reserved default output, and exactly one synthesized default output of the
   store's type. *)
C4_BootstrapTwoPipelines ==
    /\ EmptySpecNormalized => TwoPipelinesOneOutput
    /\ EmptySpecMigrated =>
          /\ Len(Deref(result).Pipelines) = 2
          /\ Deref(result).Pipelines[1].InputRefs = <<"application">>
          /\ Deref(result).Pipelines[2].InputRefs = <<"infrastructure">>
          /\ \A i \in 1..2 : Deref(result).Pipelines[i].OutputRefs = <<"default">>
          /\ OneDefaultOutput

(* C4 as amended: an empty spec with an Elasticsearch store yields routes of
   exactly application and infrastructure to the reserved default output and
   exactly one synthesized default output of the store's type: two pipelines,
   one per source, from normalizeLogForwarding; one pipeline with inputRefs
   application, infrastructure from MigrateDefaultOutput. *)
C4_BootstrapRoutes ==
    /\ EmptySpecNormalized => TwoPipelinesOneOutput
    /\ EmptySpecMigrated =>
          /\ Len(Deref(result).Pipelines) = 1
          /\ Deref(result).Pipelines[1].InputRefs = <<"application", "infrastructure">>
          /\ Deref(result).Pipelines[1].OutputRefs = <<"default">>
          /\ OneDefaultOutput

\* The migration of the empty spec under an Elasticsearch store has returned.
C4_Witness == EmptySpecMigrated /\ Deref(result) # Deref(spec)

----------------------------------------------------------------------------
(* C8 as stated: applying the operation to its own result (same log store, same
   secrets) yields an identical spec, for the migration applied twice and for
   the validation pass applied to a normalized spec, the bootstrap result
   included. *)
C8_Idempotent ==
    pc = "twice" =>
        /\ mode = "migrate" => result2 = result
        /\ mode = "normalize" => normalized2 = normalized

\* normalizeLogForwarding takes its default-forwarding branch on this spec.
TakesDefaultForwarding(fspec) ==
    /\ Deref(request).LogStore = Some("elasticsearch")
    /\ ~fspec.DisableDefaultForwarding
    /\ Len(fspec.Pipelines) = 0

(* C8 as amended: the second application yields an identical spec exactly when
   no pass bootstraps.  The migration of a migration result returns it
   unchanged unless that result is the empty spec and a log store is supplied;
   the normalization of a normalization result returns it unchanged unless
   either pass takes the default-forwarding branch (Elasticsearch store,
   default forwarding not disabled, no pipelines): the bootstrap result is not
   a fixed point. *)
C8_IdempotentUnlessBootstrap ==
    pc = "twice" =>
        /\ mode = "migrate" =>
              (result2 = result <=> ~(IsEmptySpec(Deref(result)) /\ ~IsNil(logStore)))
        /\ mode = "normalize" =>
              (normalized2 = normalized
                 <=> ~(TakesDefaultForwarding(Declared) \/ TakesDefaultForwarding(Norm)))

\* A default resolution that replaced a declared default output, migrated again
\* without further change.
C8_Witness ==
    /\ mode = "migrate" /\ pc = "twice"
    /\ Deref(result) # Deref(spec)
    /\ Len(Deref(result).Pipelines) > 0
    /\ RefsDefault(Deref(result).Pipelines[1])
    /\ Len(Deref(result).Outputs) = 2
    /\ Len(Deref(spec).Outputs) = 2
    /\ result2 = result

====
